---- MODULE Spec2Model ----
(***************************************************************************)
(* Model of app.py, the Streamlit script of the SEO content briefing       *)
(* generator.                                                              *)
(*                                                                         *)
(* A text is a sequence of one-character strings.  Python's None is the    *)
(* one-element sequence <<"None">>, which is no text over the alphabet, so *)
(* "x is None", "not x" and "if x" can be told apart as in Python.         *)
(*                                                                         *)
(* Streamlit executes the whole script once per user interaction.  One     *)
(* script run is one action: the stages of the script are operators that   *)
(* map the state of the run so far to the set of states the stage can      *)
(* leave it in (the set has several elements where the outcome depends on  *)
(* the network or on the language model).                                  *)
(*                                                                         *)
(* Left out: the fields zielgruppe and ziel_des_artikels, which only reach *)
(* the meta strings of the prompts, and a missing API key (line 29), which *)
(* ends every run before the form is drawn.  The download button is never  *)
(* on the page of a reachable run, so there is no action that clicks it.   *)
(***************************************************************************)
EXTENDS Integers, Sequences, FiniteSets, TLC

VARIABLES url_input, text_input, fokus_keyword, uploaded_file,
          clicked, keywords_df, content_to_analyze, analysis_result,
          benchmark_result, final_briefing, calls, shown, rendered,
          download, crashed, arg, res

form == <<url_input, text_input, fokus_keyword, uploaded_file>>

run == <<clicked, keywords_df, content_to_analyze, analysis_result,
         benchmark_result, final_briefing, calls, shown, rendered,
         download, crashed>>

harness == <<arg, res>>

vars == <<form, run, harness>>

----------------------------------------------------------------------------
(* Bounds of the model *)

\* longest text a competitor's page serves
MaxLen == 3

\* longest text of the user's own content, typed or served by the user's URL
MaxOwn == 2

\* most URLs a search returns
MaxUrls == 2

\* how far a long text or a long keyword table exceeds the bound it is cut to
MaxOver == 2

----------------------------------------------------------------------------
(* Texts *)

None == <<"None">>

Undefined == <<"Undefined">>

Raised == <<"Raised">>

Alphabet == {"a", " "}

Whitespace == {" "}

TextsUpTo(n) == UNION {[1..k -> Alphabet] : k \in 0..n}

Texts == TextsUpTo(MaxLen)

OwnTexts == TextsUpTo(MaxOwn)

Truthy(x) == x \notin {None, Undefined, <<>>}

Min(a, b) == IF a < b THEN a ELSE b

\* s[:n] for n >= 0
Slice(s, n) == SubSeq(s, 1, Min(n, Len(s)))

RECURSIVE lstrip(_)
lstrip(s) ==
    IF s = <<>> THEN s
    ELSE IF Head(s) \in Whitespace THEN lstrip(Tail(s)) ELSE s

RECURSIVE rstrip(_)
rstrip(s) ==
    IF s = <<>> THEN s
    ELSE IF s[Len(s)] \in Whitespace THEN rstrip(SubSeq(s, 1, Len(s) - 1)) ELSE s

strip(s) == rstrip(lstrip(s))

\* length of the run of non-whitespace characters s starts with
RECURSIVE TokenLen(_)
TokenLen(s) ==
    IF s = <<>> THEN 0
    ELSE IF Head(s) \in Whitespace THEN 0 ELSE 1 + TokenLen(Tail(s))

\* str.split() without arguments: the maximal runs of non-whitespace
RECURSIVE split(_)
split(s) ==
    LET t == lstrip(s)
        n == TokenLen(t)
    IN  IF t = <<>> THEN <<>>
        ELSE <<SubSeq(t, 1, n)>> \o split(SubSeq(t, n + 1, Len(t)))

----------------------------------------------------------------------------
(* The network: what the two extraction attempts do for one URL *)

Urls == {<<"u1">>, <<"u2">>}

TypedUrls == {<<"u1">>}

\* "article": newspaper parses the page; "soup": newspaper raises and the
\* fallback GET succeeds; "fail": both raise
FetchOutcomes(texts) ==
    {[kind |-> k, text |-> t] : k \in {"article", "soup"}, t \in texts}
        \cup {[kind |-> "fail", text |-> <<>>]}

\* what the network does for each of the URLs the search found
Nets(urls) == [urls -> FetchOutcomes(Texts)]

\* what the network does for the user's own URL
OwnNets(url) == [{url} -> FetchOutcomes(OwnTexts)]

extract_text_from_url(url, net) ==
    IF net[url].kind = "article" THEN net[url].text
    ELSE IF net[url].kind = "soup" THEN net[url].text
    ELSE <<>>

\* the language model: an empty completion, a non-empty one, or an error
ModelReplies == {<<>>, <<"x">>, Raised}

Call(fn, a, ret, note) == [fn |-> fn, arg |-> a, ret |-> ret, note |-> note]

----------------------------------------------------------------------------
(* Phase 1: analysis prompt *)

MetaInfo(kw) == <<"Fokus-Keyword: ">> \o kw

\* the user message analyze_content_with_openai sends
analyze_content_with_openai(content, meta_info) ==
    [content |-> content,
     meta |-> IF Truthy(meta_info) THEN meta_info ELSE None]

----------------------------------------------------------------------------
(* Phase 2: search, competitor texts, benchmark prompt *)

NumResultsBenchmark == 3

CompetitorExcerpt == 1000

OwnExcerptBenchmark == 1500

UrlSeqs(n) == UNION {[1..k -> Urls] : k \in 0..n}

\* what the search provider does: the URLs it yields, and whether it then fails
SearchOutcomes(num_results) ==
    {[urls |-> u, raises |-> r] :
        u \in UrlSeqs(Min(MaxUrls, num_results)), r \in BOOLEAN}

perform_google_search(query, num_results, provider) ==
    [results |-> provider.urls, warned |-> provider.raises]

RECURSIVE CompetitorLoop(_, _, _)
CompetitorLoop(urls, net, texts) ==
    IF urls = <<>> THEN texts
    ELSE LET u == Head(urls)
             txt == strip(extract_text_from_url(u, net))
         IN  CompetitorLoop(Tail(urls), net,
                 Append(texts, [url |-> u, text |-> txt,
                                word_count |-> Len(split(txt))]))

\* mutant: a failed or empty extraction yields no entry
extract_competitor_data_skip(urls, net) ==
    LET NonEmpty(c) == c.text # <<>>
    IN  SelectSeq(CompetitorLoop(urls, net, <<>>), NonEmpty)

extract_competitor_data(urls, net) == CompetitorLoop(urls, net, <<>>)

\* mutant: the whole competitor text is embedded
competitor_excerpt_full(c) == c.text

competitor_excerpt(c) == Slice(c.text, CompetitorExcerpt)

own_excerpt_benchmark(own_content) == Slice(own_content, OwnExcerptBenchmark)

\* the user message benchmark_analysis_with_openai sends
benchmark_analysis_with_openai(own_content, competitors_info, meta_info) ==
    [own |-> own_excerpt_benchmark(own_content),
     competitor_summaries |->
        [i \in 1..Len(competitors_info) |->
            [url |-> competitors_info[i].url,
             word_count |-> competitors_info[i].word_count,
             excerpt |-> competitor_excerpt(competitors_info[i])]],
     meta |-> IF Truthy(meta_info) THEN meta_info ELSE None]

----------------------------------------------------------------------------
(* Phase 3: briefing prompt *)

OwnExcerptBriefing == 1000

KeywordRows == 10

DfNone == [is_none |-> TRUE, rows |-> <<>>]

Df(rows) == [is_none |-> FALSE, rows |-> rows]

\* DataFrame.head(n)
head(df, n) == Df(SubSeq(df.rows, 1, Min(n, Len(df.rows))))

\* DataFrame.to_csv(index=False): the header line, then one line per row
to_csv(df) == [present |-> TRUE, header |-> "Keyword,Search Volume", lines |-> df.rows]

NoKeywordSection == [present |-> FALSE, header |-> "", lines |-> <<>>]

\* mutant: the whole table is embedded
df_head_all(df) == df

df_head(df) == head(df, KeywordRows)

own_excerpt_briefing(own_content) == Slice(own_content, OwnExcerptBriefing)

\* the user message generate_seo_briefing sends
generate_seo_briefing(own_content, initial_analysis, benchmark_analysis, df, meta_info) ==
    [own |-> own_excerpt_briefing(own_content),
     initial_analysis |-> initial_analysis,
     benchmark_analysis |-> benchmark_analysis,
     keywords |-> IF df.is_none THEN NoKeywordSection ELSE to_csv(df_head(df)),
     context |-> IF Truthy(meta_info) THEN meta_info ELSE None]

----------------------------------------------------------------------------
(* One run of the script *)

NoFile == [kind |-> "none", rows |-> <<>>]

BadCsv == [kind |-> "bad", rows |-> <<>>]

Csv(rows) == [kind |-> "csv", rows |-> rows]

NoDownload == [file_name |-> "", data |-> <<>>]

WarnBoth == "Es wurde sowohl eine URL als auch ein Text eingegeben."

ErrNoContent == "Bitte gib mindestens eine URL oder einen direkten Text ein."

WarnNoKeyword == "Bitte gib ein Fokus-Keyword an"

WarnSearch == "Fehler bei Google-Suche"

ErrNoAnalysis == "Bitte zuerst eine Analyse durchfuehren."

ErrCsv == "Fehler beim Lesen der Datei"

\* a fresh run: the widgets hold what the user left in them, the script's
\* own names are not bound yet
Start(click, url, text, kw, file) ==
    [click |-> click, url_input |-> url, text_input |-> text,
     fokus_keyword |-> kw, uploaded_file |-> file,
     keywords_df |-> DfNone, content_to_analyze |-> Undefined,
     analysis_result |-> Undefined, benchmark_result |-> Undefined,
     final_briefing |-> Undefined, calls |-> <<>>, shown |-> {},
     rendered |-> {}, download |-> NoDownload, response |-> Undefined,
     crashed |-> FALSE]

\* what a stage leaves of s: a run an uncaught exception ended stays as it is
Running(s, after) == IF s.crashed THEN {s} ELSE after

InputStage(s) ==
    IF s.uploaded_file.kind = "none" THEN {[s EXCEPT !.keywords_df = DfNone]}
    ELSE IF s.uploaded_file.kind = "csv"
         THEN {[s EXCEPT !.keywords_df = Df(s.uploaded_file.rows)]}
    ELSE {[s EXCEPT !.keywords_df = DfNone, !.shown = @ \cup {ErrCsv}]}

\* mutant: the URL is fetched whenever one is given
SelectContent_UrlWins(s) ==
    IF s.url_input # <<>>
    THEN {LET got == extract_text_from_url(s.url_input, net)
          IN  [s EXCEPT !.content_to_analyze = strip(got),
                        !.calls = Append(@, Call("extract_text_from_url",
                                      s.url_input, got, net[s.url_input].kind))]
          : net \in OwnNets(s.url_input)}
    ELSE {[s EXCEPT !.content_to_analyze = strip(s.text_input)]}

\* mutant: a text given without a URL is not taken
SelectContent_TextOnlyDropped(s) ==
    IF s.url_input # <<>> /\ s.text_input # <<>>
    THEN {[s EXCEPT !.shown = @ \cup {WarnBoth},
                    !.content_to_analyze = strip(s.text_input)]}
    ELSE IF s.url_input # <<>> /\ s.text_input = <<>>
    THEN {LET got == extract_text_from_url(s.url_input, net)
          IN  [s EXCEPT !.content_to_analyze = strip(got),
                        !.calls = Append(@, Call("extract_text_from_url",
                                      s.url_input, got, net[s.url_input].kind))]
          : net \in OwnNets(s.url_input)}
    ELSE {[s EXCEPT !.content_to_analyze = <<>>]}

SelectContent(s) ==
    IF s.url_input # <<>> /\ s.text_input # <<>>
    THEN {[s EXCEPT !.shown = @ \cup {WarnBoth},
                    !.content_to_analyze = strip(s.text_input)]}
    ELSE IF s.url_input # <<>> /\ s.text_input = <<>>
    THEN {LET got == extract_text_from_url(s.url_input, net)
          IN  [s EXCEPT !.content_to_analyze = strip(got),
                        !.calls = Append(@, Call("extract_text_from_url",
                                      s.url_input, got, net[s.url_input].kind))]
          : net \in OwnNets(s.url_input)}
    ELSE IF s.text_input # <<>> /\ s.url_input = <<>>
    THEN {[s EXCEPT !.content_to_analyze = strip(s.text_input)]}
    ELSE {[s EXCEPT !.content_to_analyze = <<>>]}

\* a model call: the service answers, or raises and ends the run
ModelCall(s, fn, a, msg) ==
    {[s EXCEPT !.calls = Append(@, Call(fn, a, reply, msg)),
               !.response = reply,
               !.crashed = (reply = Raised)]
     : reply \in ModelReplies}

StoreAnalysis(s) ==
    IF s.crashed THEN s ELSE [s EXCEPT !.analysis_result = s.response]

\* mutant: the analysis does not check that there is content
AnalysisStage_NoCheck(s) ==
    LET s0 == [s EXCEPT !.analysis_result = None,
                        !.rendered = @ \cup {"analyze"}]
    IN  IF s0.click # "analyze" THEN {s0}
        ELSE {StoreAnalysis(t) :
                 t \in ModelCall(s0, "analyze_content_with_openai",
                           s0.content_to_analyze,
                           analyze_content_with_openai(s0.content_to_analyze,
                                                       MetaInfo(s0.fokus_keyword)))}

AnalysisStage(s) ==
    LET s0 == [s EXCEPT !.analysis_result = None,
                        !.rendered = @ \cup {"analyze"}]
    IN  IF s0.click # "analyze" THEN {s0}
        ELSE IF ~Truthy(s0.content_to_analyze)
        THEN {[s0 EXCEPT !.shown = @ \cup {ErrNoContent}]}
        ELSE {StoreAnalysis(t) :
                 t \in ModelCall(s0, "analyze_content_with_openai",
                           s0.content_to_analyze,
                           analyze_content_with_openai(s0.content_to_analyze,
                                                       MetaInfo(s0.fokus_keyword)))}

StoreBenchmark(s) ==
    IF s.crashed THEN s ELSE [s EXCEPT !.benchmark_result = s.response]

\* the body of the benchmark button for one behaviour of the search provider
\* and of the network
Benchmark(s, provider, net) ==
    LET found == perform_google_search(s.fokus_keyword, NumResultsBenchmark, provider)
        competitor_texts == extract_competitor_data(found.results, net)
        s1 == [s EXCEPT !.shown = IF found.warned THEN @ \cup {WarnSearch} ELSE @,
                        !.calls = Append(@, Call("perform_google_search",
                                      s.fokus_keyword, found.results, ""))
                                  \o [i \in 1..Len(found.results) |->
                                        Call("extract_text_from_url", found.results[i],
                                             extract_text_from_url(found.results[i], net),
                                             net[found.results[i]].kind)]]
    IN  {StoreBenchmark(t) :
            t \in ModelCall(s1, "benchmark_analysis_with_openai",
                      s1.content_to_analyze,
                      benchmark_analysis_with_openai(s1.content_to_analyze,
                          competitor_texts, MetaInfo(s1.fokus_keyword)))}

\* mutant: the benchmark expander is shown without an analysis
BenchmarkStage_Always(s) ==
    LET s1 == [s EXCEPT !.benchmark_result = None,
                        !.rendered = @ \cup {"benchmark"}]
    IN  IF s1.click # "benchmark" THEN {s1}
        ELSE IF s1.fokus_keyword = <<>>
        THEN {[s1 EXCEPT !.shown = @ \cup {WarnNoKeyword}]}
        ELSE UNION {Benchmark(s1, provider, net) :
                        provider \in SearchOutcomes(NumResultsBenchmark),
                        net \in Nets(Urls)}

BenchmarkStage(s) ==
    LET s0 == [s EXCEPT !.benchmark_result = None]
        s1 == [s0 EXCEPT !.rendered = @ \cup {"benchmark"}]
    IN  IF ~Truthy(s0.analysis_result) THEN {s0}
        ELSE IF s1.click # "benchmark" THEN {s1}
        ELSE IF s1.fokus_keyword = <<>>
        THEN {[s1 EXCEPT !.shown = @ \cup {WarnNoKeyword}]}
        ELSE UNION {Benchmark(s1, provider, net) :
                        provider \in SearchOutcomes(NumResultsBenchmark),
                        net \in Nets(Urls)}

StoreBriefing(s) ==
    IF s.crashed THEN s
    ELSE [s EXCEPT !.final_briefing = s.response,
                   !.rendered = @ \cup {"download"},
                   !.download = [file_name |-> "SEO-Briefing.txt",
                                 data |-> s.response]]

BriefingStage(s) ==
    LET s0 == [s EXCEPT !.final_briefing = None,
                        !.rendered = @ \cup {"briefing"}]
    IN  IF s0.click # "briefing" THEN {s0}
        ELSE IF ~Truthy(s0.analysis_result)
        THEN {[s0 EXCEPT !.shown = @ \cup {ErrNoAnalysis}]}
        ELSE {StoreBriefing(t) :
                 t \in ModelCall(s0, "generate_seo_briefing", s0.content_to_analyze,
                           generate_seo_briefing(s0.content_to_analyze,
                               s0.analysis_result,
                               IF Truthy(s0.benchmark_result)
                               THEN s0.benchmark_result ELSE <<>>,
                               s0.keywords_df, MetaInfo(s0.fokus_keyword)))}

\* the script, top to bottom
Script(click, url, text, kw, file) ==
    LET inputs == InputStage(Start(click, url, text, kw, file))
        selected == UNION {Running(s, SelectContent(s)) : s \in inputs}
        analysed == UNION {Running(s, AnalysisStage(s)) : s \in selected}
        benchmarked == UNION {Running(s, BenchmarkStage(s)) : s \in analysed}
    IN  UNION {Running(s, BriefingStage(s)) : s \in benchmarked}

----------------------------------------------------------------------------
(* The session: every interaction of the user runs the script once *)

Table(n) == [i \in 1..n |-> i]

UploadFiles == {NoFile, BadCsv, Csv(Table(KeywordRows + 1))}

NoArg == [fn |-> "none"]

NoRes == [fn |-> "none"]

Rerun(click, url, text, kw, file) ==
    \E r \in Script(click, url, text, kw, file) :
        /\ url_input' = url
        /\ text_input' = text
        /\ fokus_keyword' = kw
        /\ uploaded_file' = file
        /\ clicked' = click
        /\ keywords_df' = r.keywords_df
        /\ content_to_analyze' = r.content_to_analyze
        /\ analysis_result' = r.analysis_result
        /\ benchmark_result' = r.benchmark_result
        /\ final_briefing' = r.final_briefing
        /\ calls' = r.calls
        /\ shown' = r.shown
        /\ rendered' = r.rendered
        /\ download' = r.download
        /\ crashed' = r.crashed
        /\ UNCHANGED harness

FirstRun == CHOOSE r \in Script("none", <<>>, <<>>, <<>>, NoFile) : TRUE

InitSession ==
    /\ url_input = <<>>
    /\ text_input = <<>>
    /\ fokus_keyword = <<>>
    /\ uploaded_file = NoFile
    /\ clicked = "none"
    /\ keywords_df = FirstRun.keywords_df
    /\ content_to_analyze = FirstRun.content_to_analyze
    /\ analysis_result = FirstRun.analysis_result
    /\ benchmark_result = FirstRun.benchmark_result
    /\ final_briefing = FirstRun.final_briefing
    /\ calls = FirstRun.calls
    /\ shown = FirstRun.shown
    /\ rendered = FirstRun.rendered
    /\ download = FirstRun.download
    /\ crashed = FirstRun.crashed

Init == InitSession /\ arg = NoArg /\ res = NoRes

SetUrl ==
    \E u \in {<<>>} \cup TypedUrls :
        /\ u # url_input
        /\ Rerun("none", u, text_input, fokus_keyword, uploaded_file)

SetText ==
    \E t \in OwnTexts :
        /\ t # text_input
        /\ Rerun("none", url_input, t, fokus_keyword, uploaded_file)

SetKeyword ==
    \E k \in {<<>>, <<"k">>} :
        /\ k # fokus_keyword
        /\ Rerun("none", url_input, text_input, k, uploaded_file)

Upload ==
    \E f \in UploadFiles :
        /\ f # uploaded_file
        /\ Rerun("none", url_input, text_input, fokus_keyword, f)

\* a button can be clicked when the last run put it on the page
ClickAnalyze ==
    /\ "analyze" \in rendered
    /\ Rerun("analyze", url_input, text_input, fokus_keyword, uploaded_file)

ClickBenchmark ==
    /\ "benchmark" \in rendered
    /\ Rerun("benchmark", url_input, text_input, fokus_keyword, uploaded_file)

ClickBriefing ==
    /\ "briefing" \in rendered
    /\ Rerun("briefing", url_input, text_input, fokus_keyword, uploaded_file)

Next ==
    \/ SetUrl
    \/ SetText
    \/ SetKeyword
    \/ Upload
    \/ ClickAnalyze
    \/ ClickBenchmark
    \/ ClickBriefing

Spec == Init /\ [][Next]_vars

----------------------------------------------------------------------------
(* The functions of the script applied to inputs of every shape *)

\* a text of n characters with no whitespace at either end
LongText(n) ==
    [i \in 1..n |-> IF i = n THEN "b" ELSE <<"a", "b", " ">>[((i - 1) % 3) + 1]]

Lengths(bound) == {0, 1} \cup ((bound - 1)..(bound + MaxOver))

\* the positions at which a whitespace-delimited token of s starts
TokenStarts(s) ==
    {i \in 1..Len(s) : s[i] \notin Whitespace /\ (i = 1 \/ s[i - 1] \in Whitespace)}

Entry(u, text) ==
    [url |-> u, text |-> text, word_count |-> Cardinality(TokenStarts(text))]

CompetitorInfos ==
    UNION {[1..k -> {Entry(<<"u1">>, LongText(n)) : n \in Lengths(CompetitorExcerpt)}]
              : k \in 0..MaxUrls}

\* tables of distinct rows, ascending and descending
Dfs == {DfNone}
         \cup {Df(Table(n)) : n \in Lengths(KeywordRows)}
         \cup {Df([i \in 1..n |-> n + 1 - i]) : n \in Lengths(KeywordRows)}

FnCases ==
    {[fn |-> "extract_competitor_data", provider |-> p, net |-> n] :
        p \in SearchOutcomes(MaxUrls), n \in Nets(Urls)}
    \cup
    {[fn |-> "benchmark_analysis_with_openai", own_content |-> LongText(n),
      competitors_info |-> c] :
        n \in Lengths(OwnExcerptBenchmark), c \in CompetitorInfos}
    \cup
    {[fn |-> "generate_seo_briefing", own_content |-> LongText(n), df |-> d] :
        n \in Lengths(OwnExcerptBriefing), d \in Dfs}

InitFn == InitSession /\ arg \in FnCases /\ res = NoRes

ApplyExtractCompetitorData ==
    /\ arg.fn = "extract_competitor_data"
    /\ res = NoRes
    /\ LET found == perform_google_search(<<"k">>, MaxUrls, arg.provider)
       IN  res' = [fn |-> arg.fn, urls |-> found.results,
                   out |-> extract_competitor_data(found.results, arg.net)]
    /\ UNCHANGED <<arg, form, run>>

ApplyBenchmarkAnalysis ==
    /\ arg.fn = "benchmark_analysis_with_openai"
    /\ res = NoRes
    /\ res' = [fn |-> arg.fn,
               msg |-> benchmark_analysis_with_openai(arg.own_content,
                           arg.competitors_info, MetaInfo(<<"k">>))]
    /\ UNCHANGED <<arg, form, run>>

ApplyGenerateSeoBriefing ==
    /\ arg.fn = "generate_seo_briefing"
    /\ res = NoRes
    /\ res' = [fn |-> arg.fn,
               msg |-> generate_seo_briefing(arg.own_content, <<"x">>, <<>>,
                           arg.df, MetaInfo(<<"k">>))]
    /\ UNCHANGED <<arg, form, run>>

NextFn ==
    \/ ApplyExtractCompetitorData
    \/ ApplyBenchmarkAnalysis
    \/ ApplyGenerateSeoBriefing

SpecFn == InitFn /\ [][NextFn]_vars

----------------------------------------------------------------------------
(* Properties *)

Called(fn) == \E i \in 1..Len(calls) : calls[i].fn = fn

ModelFns == {"analyze_content_with_openai", "benchmark_analysis_with_openai",
             "generate_seo_briefing"}

NoModelCall == \A i \in 1..Len(calls) : calls[i].fn \notin ModelFns

HasNonWhitespace(s) == \E i \in 1..Len(s) : s[i] \notin Whitespace

\* t is raw without the whitespace at its two ends
IsStripOf(t, raw) ==
    /\ t = <<>> \/ (t[1] \notin Whitespace /\ t[Len(t)] \notin Whitespace)
    /\ \E k \in 0..(Len(raw) - Len(t)) :
          /\ SubSeq(raw, k + 1, k + Len(t)) = t
          /\ \A i \in 1..Len(raw) :
                (i <= k \/ i > k + Len(t)) => raw[i] \in Whitespace

\* e is the first min(bound, len) characters of t
IsPrefixUpTo(e, t, bound) ==
    /\ Len(e) = IF Len(t) < bound THEN Len(t) ELSE bound
    /\ \A i \in 1..Len(e) : e[i] = t[i]

\* C1: once an analysis has produced a non-empty critique, pressing
\* "SEO-Briefing generieren" in the next interaction invokes
\* generate_seo_briefing and, unless the model call fails, offers the briefing
\* for download as SEO-Briefing.txt.
C1_BriefingReachable ==
    [][(Truthy(analysis_result) /\ clicked' = "briefing")
          => /\ \E i \in 1..Len(calls') : calls'[i].fn = "generate_seo_briefing"
             /\ ~crashed' => download'.file_name = "SEO-Briefing.txt"]_vars

\* C2: analyze_content_with_openai is invoked only with non-empty content and
\* generate_seo_briefing only with a non-empty analysis result; a press of
\* either button without its upstream text shows the stage's error and makes
\* no model call.
C2_StagesNeedUpstream ==
    /\ \A i \in 1..Len(calls) :
          /\ calls[i].fn = "analyze_content_with_openai"
                => calls[i].arg # <<>> /\ calls[i].arg = content_to_analyze
          /\ calls[i].fn = "generate_seo_briefing" => Truthy(analysis_result)
    /\ (clicked = "analyze" /\ ~Truthy(content_to_analyze))
          => ErrNoContent \in shown /\ NoModelCall
    /\ (clicked = "briefing" /\ ~Truthy(analysis_result))
          => ErrNoAnalysis \in shown /\ NoModelCall

C2_Witness ==
    /\ clicked = "analyze"
    /\ Called("analyze_content_with_openai")
    /\ Truthy(content_to_analyze)

\* C3 as stated: with both a URL and a text supplied, the content fed
\* downstream is the typed text itself and the URL is not fetched.
C3_TextWinsVerbatim ==
    (url_input # <<>> /\ text_input # <<>>)
        => /\ content_to_analyze = text_input
           /\ ~Called("extract_text_from_url")
           /\ \A i \in 1..Len(calls) :
                 calls[i].fn \in ModelFns => calls[i].arg = text_input

\* C3 as amended: with both a URL and a text supplied, the content fed
\* downstream is the typed text without its leading and trailing whitespace,
\* and the URL is not fetched.
C3_TextWinsStripped ==
    (url_input # <<>> /\ text_input # <<>>)
        => /\ IsStripOf(content_to_analyze, text_input)
           /\ ~Called("extract_text_from_url")
           /\ \A i \in 1..Len(calls) :
                 calls[i].fn \in ModelFns => IsStripOf(calls[i].arg, text_input)

C3_Witness ==
    /\ url_input # <<>>
    /\ text_input = <<" ", "a">>
    /\ content_to_analyze = <<"a">>
    /\ Called("analyze_content_with_openai")

\* C4 as stated: for any non-empty text, whitespace-only text included,
\* pressing "Jetzt analysieren" invokes the analyzer, shows no "no content"
\* error and fetches nothing.
C4_AnyNonEmptyText ==
    (clicked = "analyze" /\ text_input # <<>>)
        => /\ Called("analyze_content_with_openai")
           /\ ErrNoContent \notin shown
           /\ ~Called("extract_text_from_url")

\* C4 as amended: for any non-empty text nothing is fetched; pressing
\* "Jetzt analysieren" invokes the analyzer when the text has a
\* non-whitespace character, and shows the "no content" error without a
\* model call when the text is whitespace only.
C4_NonBlankText ==
    (clicked = "analyze" /\ text_input # <<>>)
        => /\ ~Called("extract_text_from_url")
           /\ HasNonWhitespace(text_input)
                 => Called("analyze_content_with_openai") /\ ErrNoContent \notin shown
           /\ ~HasNonWhitespace(text_input)
                 => ErrNoContent \in shown /\ NoModelCall

C4_Witness ==
    /\ clicked = "analyze"
    /\ url_input = <<>>
    /\ text_input = <<"a", " ">>
    /\ ~Called("extract_text_from_url")
    /\ Called("analyze_content_with_openai")

\* C5: a fetch whose two attempts both raise returns a non-empty diagnostic
\* text, so an analysis of URL-only input does not report "no content" for it.
C5_FailedFetchDiagnostic ==
    \A i \in 1..Len(calls) :
        (calls[i].fn = "extract_text_from_url" /\ calls[i].note = "fail")
            => /\ calls[i].ret # <<>>
               /\ clicked = "analyze" => ErrNoContent \notin shown

\* C6: a press of "Benchmark durchfuehren" with an empty focus keyword makes no
\* search, no competitor extraction and no model call, shows the keyword
\* warning and leaves benchmark_result empty.
C6_EmptyKeywordWarns ==
    (clicked = "benchmark" /\ fokus_keyword = <<>>)
        => /\ ~Called("perform_google_search")
           /\ ~Called("extract_text_from_url")
           /\ ~Called("benchmark_analysis_with_openai")
           /\ WarnNoKeyword \in shown
           /\ ~Truthy(benchmark_result)

C8_FirstTenRows ==
    res.fn = "generate_seo_briefing"
        => IF arg.df.is_none THEN ~res.msg.keywords.present
           ELSE /\ res.msg.keywords.present
                /\ IsPrefixUpTo(res.msg.keywords.lines, arg.df.rows, 10)

C8_Witness ==
    /\ res.fn = "generate_seo_briefing"
    /\ ~arg.df.is_none
    /\ Len(arg.df.rows) > 10
    /\ Len(res.msg.keywords.lines) = 10

\* C9: the benchmark prompt embeds the first min(1500, len) characters of the
\* own content and the first min(1000, len) characters of every competitor
\* text; the briefing prompt embeds the first min(1000, len) characters of the
\* own content.
C9_ExcerptBounds ==
    /\ res.fn = "benchmark_analysis_with_openai"
          => /\ IsPrefixUpTo(res.msg.own, arg.own_content, 1500)
             /\ Len(res.msg.competitor_summaries) = Len(arg.competitors_info)
             /\ \A i \in 1..Len(arg.competitors_info) :
                   IsPrefixUpTo(res.msg.competitor_summaries[i].excerpt,
                                arg.competitors_info[i].text, 1000)
    /\ res.fn = "generate_seo_briefing"
          => IsPrefixUpTo(res.msg.own, arg.own_content, 1000)

C9_Witness ==
    /\ res.fn = "benchmark_analysis_with_openai"
    /\ Len(arg.own_content) > 1500
    /\ Len(res.msg.own) = 1500
    /\ \E i \in 1..Len(arg.competitors_info) :
          /\ Len(arg.competitors_info[i].text) > 1000
          /\ Len(res.msg.competitor_summaries[i].excerpt) = 1000

====
